---- MODULE Spec2Model ----
(***************************************************************************)
(* Model of wordle.py: LetterFilter, Filter, Solver and WordleCli.         *)
(*                                                                         *)
(* A word is a sequence of one-character strings.  A slot of               *)
(* LetterFilter._positions holds Python's None, True or False, written     *)
(* here "None", "True", "False".  An element of the `values` list handed   *)
(* to update is any Python value; besides None, True and False the model   *)
(* carries a non-empty string (truthy) and an empty string (falsy).        *)
(***************************************************************************)
EXTENDS Integers, Sequences, FiniteSets, TLC

\* ------------------------------------------------------------------ bounds
\* word_length handed to Solver(...)
WordLen == 2
\* number of entries of the dictionary (WORDS) drawn in Init
MaxDict == 3
\* number of Solver.update calls explored in one behaviour
MaxUpdates == 2
\* largest count handed to Solver.top
MaxTop == 2

\* WordleCli._top_size after construction
DefaultTopSize == 10

\* The letters standing for string.ascii_lowercase.
Alphabet == {"a", "b", "c"}

\* ----------------------------------------------------------- pure helpers
\* str.lower() on one character
LowerChar(c) == IF c = "A" THEN "a" ELSE IF c = "O" THEN "o" ELSE c

\* str.lower()
Lower(word) == [i \in 1..Len(word) |-> LowerChar(word[i])]

\* _is_lower: every character is a key of _LOWERS
IsLower(word) == \A i \in 1..Len(word) : word[i] \in Alphabet

\* Python truthiness of an element of `values`
Truthy(v) == v \in {"True", "junk"}

\* the three values update documents: True, False, None
Recognised(v) == v \in {"True", "False", "None"}

\* ------------------------------------------------------------ LetterFilter
\* _positions starting as [False] * word_length
NewPositionsFalse == [i \in 1..WordLen |-> "False"]

\* LetterFilter.__init__: _positions = [None] * word_length
NewPositions == [i \in 1..WordLen |-> "None"]

\* LetterFilter.accept, the loop from index ix on, has_letter carried along
RECURSIVE AcceptLoop(_, _, _, _, _, _)
AcceptLoop(letter, pos, req, word, ix, has_letter) ==
    IF ix > Len(pos)
    THEN (~req) \/ has_letter
    ELSE LET hl == has_letter \/ word[ix] = letter
             value == pos[ix]
         IN IF value # "None"
                /\ ( (value = "True" /\ word[ix] # letter)
                     \/ (value # "True" /\ word[ix] = letter) )
            THEN FALSE
            ELSE AcceptLoop(letter, pos, req, word, ix + 1, hl)

\* LetterFilter.accept with the "not value and word[ix] == letter" test left out
LetterAcceptNoNegative(letter, pos, req, word) ==
    /\ Len(word) = Len(pos)
    /\ \A ix \in 1..Len(pos) : pos[ix] = "True" => word[ix] = letter
    /\ (req => \E ix \in 1..Len(word) : word[ix] = letter)

\* LetterFilter.accept returning True at the end of the loop, _required not read
LetterAcceptIgnoreRequired(letter, pos, req, word) ==
    IF Len(word) # Len(pos)
    THEN FALSE
    ELSE AcceptLoop(letter, pos, FALSE, word, 1, FALSE)

\* LetterFilter.accept
LetterAccept(letter, pos, req, word) ==
    IF Len(word) # Len(pos)
    THEN FALSE
    ELSE AcceptLoop(letter, pos, req, word, 1, FALSE)

\* set_at_index forgetting the letter's other slots
SetAtIndexOnlySlot(lf, index, value, required) ==
    [pos |-> [i \in 1..Len(lf.pos) |-> IF i = index THEN value ELSE "None"],
     req |-> required]

\* set_at_index assigning _required only, the slot left as it was
SetAtIndexKeepSlot(lf, index, value, required) ==
    [pos |-> lf.pos, req |-> required]

\* LetterFilter.set_at_index on one letter's record [pos, req]
SetAtIndex(lf, index, value, required) ==
    [pos |-> [lf.pos EXCEPT ![index] = value], req |-> required]

\* LetterFilter.disqualify
Disqualify(lf) ==
    [pos |-> [i \in 1..Len(lf.pos) |-> "False"], req |-> FALSE]

\* LetterFilter.disqualified
IsDisqualified(lf) == \A i \in 1..Len(lf.pos) : lf.pos[i] = "False"

\* LetterFilter.unknown
IsUnknown(lf) == \A i \in 1..Len(lf.pos) : lf.pos[i] = "None"

\* ------------------------------------------------------------------ Filter
\* Filter.__init__: one LetterFilter per letter
NewFilter == [l \in Alphabet |-> [pos |-> NewPositions, req |-> FALSE]]

\* Filter.accept
FilterAccept(flt, word) ==
    \A l \in Alphabet : LetterAccept(l, flt[l].pos, flt[l].req, word)

\* Filter.unknown_letters
UnknownLetters(flt) == {l \in Alphabet : IsUnknown(flt[l])}

\* Filter.update's validation without the check of len(values)
UpdateErrorNoValuesCheck(word, values) ==
    IF Len(word) # WordLen THEN "ValueError"
    ELSE IF ~IsLower(Lower(word)) THEN "ValueError"
    ELSE "none"

\* Filter.update, the validation: the error raised, or "none"
UpdateError(word, values) ==
    IF Len(word) # WordLen THEN "ValueError"
    ELSE IF Len(values) # WordLen THEN "ValueError"
    ELSE IF ~IsLower(Lower(word)) THEN "ValueError"
    ELSE "none"

\* the loop's body testing the truth of the value only: None is falsy
ApplySignalNoneFalsy(flt, ix, letter, v) ==
    IF Truthy(v)
    THEN [flt EXCEPT ![letter] = SetAtIndex(@, ix, "True", TRUE)]
    ELSE [flt EXCEPT ![letter] = Disqualify(@)]

\* Filter.update, one iteration of the loop over enumerate(word)
ApplySignal(flt, ix, letter, v) ==
    IF v = "None"
    THEN [flt EXCEPT ![letter] = SetAtIndex(@, ix, "False", TRUE)]
    ELSE IF Truthy(v)
    THEN [flt EXCEPT ![letter] = SetAtIndex(@, ix, "True", TRUE)]
    ELSE [flt EXCEPT ![letter] = Disqualify(@)]

\* Filter.update, the loop from index ix on
RECURSIVE UpdateLoop(_, _, _, _)
UpdateLoop(flt, word, values, ix) ==
    IF ix > Len(word)
    THEN flt
    ELSE UpdateLoop(ApplySignal(flt, ix, word[ix], values[ix]), word, values, ix + 1)

\* Filter.update on a call that passed validation
FilterUpdate(flt, word, values) == UpdateLoop(flt, Lower(word), values, 1)

\* ------------------------------------------------------------------ Solver
\* number of occurrences of letter in word
RECURSIVE Occurrences(_, _)
Occurrences(letter, word) ==
    IF word = << >> THEN 0
    ELSE (IF Head(word) = letter THEN 1 ELSE 0) + Occurrences(letter, Tail(word))

\* the counting loop adding one per word that holds the letter
RECURSIVE CountLetterOncePerWord(_, _)
CountLetterOncePerWord(letter, list) ==
    IF list = << >> THEN 0
    ELSE (IF Occurrences(letter, Head(list)) > 0 THEN 1 ELSE 0)
         + CountLetterOncePerWord(letter, Tail(list))

\* _sort_word_list: letter_values after the counting loop
RECURSIVE CountLetter(_, _)
CountLetter(letter, list) ==
    IF list = << >> THEN 0
    ELSE Occurrences(letter, Head(list)) + CountLetter(letter, Tail(list))

\* _sort_word_list: letter_values after the unknown letters are multiplied
LetterValues(flt, list) ==
    LET multiplier == WordLen * Len(list)
    IN [l \in Alphabet |->
            IF l \in UnknownLetters(flt)
            THEN CountLetter(l, list) * multiplier
            ELSE CountLetter(l, list)]

\* sum of f over the set S
RECURSIVE SumOver(_, _)
SumOver(f, S) ==
    IF S = {} THEN 0
    ELSE LET x == CHOOSE y \in S : TRUE IN f[x] + SumOver(f, S \ {x})

\* the sort key without its minus sign: an ascending sort by score
SortKeyAscending(lv, w) == SumOver(lv, {w[i] : i \in 1..Len(w)})

\* the sort key of _sort_word_list: -sum(letter_values[l] for l in set(w))
SortKey(lv, w) == 0 - SumOver(lv, {w[i] : i \in 1..Len(w)})

\* an unstable sort: w goes before the elements whose key equals its own
RECURSIVE InsertByKeyUnstable(_, _, _)
InsertByKeyUnstable(sorted, w, lv) ==
    IF sorted = << >> THEN <<w>>
    ELSE IF SortKey(lv, Head(sorted)) < SortKey(lv, w)
    THEN <<Head(sorted)>> \o InsertByKeyUnstable(Tail(sorted), w, lv)
    ELSE <<w>> \o sorted

\* list.sort is stable: w goes after every element whose key is <= its own
RECURSIVE InsertByKey(_, _, _)
InsertByKey(sorted, w, lv) ==
    IF sorted = << >> THEN <<w>>
    ELSE IF SortKey(lv, Head(sorted)) <= SortKey(lv, w)
    THEN <<Head(sorted)>> \o InsertByKey(Tail(sorted), w, lv)
    ELSE <<w>> \o sorted

\* list.sort(key=...): insertion of the elements in list order
RECURSIVE SortByKey(_, _, _)
SortByKey(list, lv, n) ==
    IF n = 0 THEN << >>
    ELSE InsertByKey(SortByKey(list, lv, n - 1), list[n], lv)

\* _sort_word_list raising on an empty list as well (a division by its length)
SortRaisesOnEmpty(list) ==
    list = << >> \/ \E i \in 1..Len(list) : ~IsLower(list[i])

\* _sort_word_list raises KeyError on a letter that letter_values lacks
SortRaises(list) == \E i \in 1..Len(list) : ~IsLower(list[i])

\* _sort_word_list: the list after the sort
SortWordList(flt, list) == SortByKey(list, LetterValues(flt, list), Len(list))

\* Solver.__init__: [w for w in WORDS if len(w) == word_length]
InitialWordList(dict) == SelectSeq(dict, LAMBDA w : Len(w) = WordLen)

\* Solver.update: [w for w in self._word_list if self._filter.accept(w)]
Survivors(flt, list) == SelectSeq(list, LAMBDA w : FilterAccept(flt, w))

\* Solver.top slicing one element too far: list[:count + 1]
TopOfInclusive(list, count) ==
    IF count = << >> THEN list
    ELSE LET n == count[1] + 1
             stop == IF n < 0 THEN Len(list) + n ELSE n
         IN SubSeq(list, 1, IF stop < 0 THEN 0
                            ELSE IF stop > Len(list) THEN Len(list) ELSE stop)

\* Solver.top: list[0:] when count is None, list[:count] otherwise
\* (count is << >> for None and <<n>> for the integer n)
TopOf(list, count) ==
    IF count = << >> THEN list
    ELSE LET n == count[1]
             stop == IF n < 0 THEN Len(list) + n ELSE n
         IN SubSeq(list, 1, IF stop < 0 THEN 0
                            ELSE IF stop > Len(list) THEN Len(list) ELSE stop)

\* ------------------------------------------------------------------ inputs
\* all sequences of length n over S
RECURSIVE SeqsOfLen(_, _)
SeqsOfLen(S, n) ==
    IF n = 0 THEN {<< >>}
    ELSE {Append(s, x) : s \in SeqsOfLen(S, n - 1), x \in S}

\* the words of the configured length
AllWords == SeqsOfLen(Alphabet, WordLen)

\* a corpus: two words that are each other's reverse, a word twice, words
\* that share a letter, a shorter word and a word with a character that is no
\* lowercase letter
Corpus ==
    << [i \in 1..WordLen |-> IF i = 1 THEN "a" ELSE "b"],
       [i \in 1..WordLen |-> IF i = WordLen THEN "a" ELSE "b"],
       [i \in 1..WordLen |-> "a"],
       [i \in 1..WordLen |-> "a"],
       [i \in 1..WordLen |-> "b"],
       [i \in 1..WordLen |-> IF i = 1 THEN "b" ELSE "c"],
       [i \in 1..WordLen |-> IF i = 1 THEN "c" ELSE "a"],
       [i \in 1..(WordLen - 1) |-> "a"],
       [i \in 1..WordLen |-> IF i = 1 THEN "1" ELSE "a"] >>

\* the dictionaries WORDS is drawn from: MaxDict consecutive corpus entries
Dictionaries ==
    {SubSeq(Corpus, i, i + MaxDict - 1) : i \in 1..(Len(Corpus) - MaxDict + 1)}

\* the lists of True/False/None of the configured length
TriLists == SeqsOfLen({"True", "False", "None"}, WordLen)

\* guesses that are no lowercase word of the configured length: a capitalised
\* one, one ending in a digit, one too short
OddGuesses ==
    { [i \in 1..WordLen |-> IF i = 1 THEN "A" ELSE "b"],
      [i \in 1..WordLen |-> IF i = WordLen THEN "1" ELSE "a"],
      [i \in 1..(WordLen - 1) |-> "a"] }

\* values lists that are no list of True/False/None of the configured length:
\* one starting with a non-empty string, one ending with an empty string, one
\* too long
OddSignals ==
    { [i \in 1..WordLen |-> IF i = 1 THEN "junk" ELSE "None"],
      [i \in 1..WordLen |-> IF i = WordLen THEN "empty" ELSE "True"],
      [i \in 1..(WordLen + 1) |-> "True"] }

\* the (word, values) pairs handed to update
Calls ==
    (AllWords \X TriLists)
    \cup (OddGuesses \X { [i \in 1..WordLen |-> "None"],
                          [i \in 1..WordLen |-> "False"] })
    \cup ({ [i \in 1..WordLen |-> "a"],
            [i \in 1..WordLen |-> IF i = 1 THEN "b" ELSE "c"] } \X OddSignals)

\* counts handed to top: None, and the integers -1..MaxTop
Counts == {<< >>} \cup {<<n>> : n \in (0 - 1)..MaxTop}

\* ------------------------------------------------------------------- state
VARIABLES
    WORDS,      \* words.WORDS, the dictionary
    pc,         \* "start" before Solver(), "ready" after it, "crashed" if it raised
    filter,     \* Solver._filter: letter -> [pos, req]
    word_list,  \* Solver._word_list
    call,       \* the last call made: [op, word, values, count]
    raised,     \* the exception the last call raised, or "none"
    result,     \* what the last call returned
    updates,    \* number of update calls that passed validation
    top_size,   \* WordleCli._top_size
    hidden      \* the right answer the evaluations are about, << >> when none is fixed

vars == <<WORDS, pc, filter, word_list, call, raised, result, updates, top_size, hidden>>

NoCall == [op |-> "none", word |-> << >>, values |-> << >>, count |-> << >>]

\* nothing constructed yet
Fresh ==
    /\ WORDS \in Dictionaries
    /\ pc = "start"
    /\ filter = NewFilter
    /\ word_list = << >>
    /\ call = NoCall
    /\ raised = "none"
    /\ result = << >>
    /\ updates = 0
    /\ top_size = DefaultTopSize

Init == Fresh /\ hidden = << >>

\* Solver.__init__
Construct ==
    /\ pc = "start"
    /\ call' = [NoCall EXCEPT !.op = "init"]
    /\ result' = << >>
    /\ IF SortRaises(InitialWordList(WORDS))
       THEN /\ pc' = "crashed"
            /\ raised' = "KeyError"
            /\ word_list' = InitialWordList(WORDS)
       ELSE /\ pc' = "ready"
            /\ raised' = "none"
            /\ word_list' = SortWordList(NewFilter, InitialWordList(WORDS))
    /\ filter' = NewFilter
    /\ UNCHANGED <<WORDS, updates, top_size, hidden>>

\* Solver.update filtering the dictionary again instead of the current list
UpdateRefilter(word, values) ==
    /\ pc = "ready"
    /\ updates < MaxUpdates
    /\ call' = [op |-> "update", word |-> word, values |-> values, count |-> << >>]
    /\ result' = << >>
    /\ IF UpdateError(word, values) # "none"
       THEN /\ raised' = UpdateError(word, values)
            /\ UNCHANGED <<filter, word_list, updates>>
       ELSE /\ filter' = FilterUpdate(filter, word, values)
            /\ raised' = "none"
            /\ word_list' = SortWordList(filter',
                                Survivors(filter', InitialWordList(WORDS)))
            /\ updates' = updates + 1
    /\ UNCHANGED <<WORDS, pc, top_size, hidden>>

\* Solver.update(word, values): Filter.update raises before anything is
\* assigned; otherwise the filter is updated, the list filtered and sorted
Update(word, values) ==
    /\ pc = "ready"
    /\ updates < MaxUpdates
    /\ call' = [op |-> "update", word |-> word, values |-> values, count |-> << >>]
    /\ result' = << >>
    /\ IF UpdateError(word, values) # "none"
       THEN /\ raised' = UpdateError(word, values)
            /\ UNCHANGED <<filter, word_list, updates>>
       ELSE /\ filter' = FilterUpdate(filter, word, values)
            /\ IF SortRaises(Survivors(filter', word_list))
               THEN /\ raised' = "KeyError"
                    /\ word_list' = Survivors(filter', word_list)
               ELSE /\ raised' = "none"
                    /\ word_list' = SortWordList(filter', Survivors(filter', word_list))
            /\ updates' = updates + 1
    /\ UNCHANGED <<WORDS, pc, top_size, hidden>>

\* Solver.top(count)
Top(count) ==
    /\ pc = "ready"
    /\ call' = [op |-> "top", word |-> << >>, values |-> << >>, count |-> count]
    /\ result' = TopOf(word_list, count)
    /\ raised' = "none"
    /\ UNCHANGED <<WORDS, pc, filter, word_list, updates, top_size, hidden>>

Next ==
    \/ Construct
    \/ \E c \in Calls : Update(c[1], c[2])
    \/ \E count \in Counts : Top(count)

Spec == Init /\ [][Next]_vars

\* --------------------------------------------------------------- WordleCli
\* a line read from stdin: end of input, one word, digits, or two tokens
NoLine == [kind |-> "eof", text |-> "", n |-> 0, word |-> << >>, eval |-> << >>]

\* the characters of an evaluation string
EvalChars == {"-", "o", "x"}

\* evaluation strings that the pattern refuses, or accepts once lowered
OddEvals == {<<"o", "?">>, <<"O", "-">>, <<"o">>}

\* the lines typed at the prompt
CliLines ==
    {NoLine}
    \cup {[NoLine EXCEPT !.kind = "text", !.text = t] :
             t \in {"exit", "quit", "done", "bye", "help"}}
    \cup {[NoLine EXCEPT !.kind = "digits", !.n = n] : n \in 0..MaxTop}
    \cup {[NoLine EXCEPT !.kind = "pair", !.word = w, !.eval = e] :
             w \in AllWords, e \in SeqsOfLen(EvalChars, WordLen)}
    \cup {[NoLine EXCEPT !.kind = "pair", !.word = w, !.eval = e] :
             w \in {<<"a", "b">>, <<"A", "b">>, <<"a", "1">>, <<"a">>}, e \in OddEvals}

\* _handle_line: the line ends the loop (end of input or a word of leave)
Leaves(line) ==
    \/ line.kind = "eof"
    \/ line.kind = "text" /\ line.text \in {"exit", "quit", "done", "bye"}

\* _handle_line: the test of the elif, on the tokens of the lowered line
IsGuessLine(line) ==
    /\ line.kind = "pair"
    /\ Len(line.word) = WordLen
    /\ IsLower(Lower(line.word))
    /\ Len(line.eval) = WordLen
    /\ \A i \in 1..Len(line.eval) : LowerChar(line.eval[i]) \in EvalChars

\* _handle_line: True if c == 'o' else False if c == 'x' else None
EvalValues(eval) ==
    [i \in 1..Len(eval) |->
        IF LowerChar(eval[i]) = "o" THEN "True"
        ELSE IF LowerChar(eval[i]) = "x" THEN "False" ELSE "None"]

\* WordleCli(): the solver is constructed, _top_size set; then main prints
\* the help and the first prompt (the top _top_size candidates)
CliStart ==
    /\ pc = "start"
    /\ call' = [NoCall EXCEPT !.op = "init"]
    /\ filter' = NewFilter
    /\ top_size' = DefaultTopSize
    /\ IF SortRaises(InitialWordList(WORDS))
       THEN /\ pc' = "crashed"
            /\ raised' = "KeyError"
            /\ word_list' = InitialWordList(WORDS)
            /\ result' = << >>
       ELSE /\ pc' = "ready"
            /\ raised' = "none"
            /\ word_list' = SortWordList(NewFilter, InitialWordList(WORDS))
            /\ result' = TopOf(word_list', <<top_size'>>)
    /\ UNCHANGED <<WORDS, updates, hidden>>

\* one turn of main's loop: _handle_line(line) and, when it returned True,
\* the next _prompt; result is what the prompt printed (nothing on leaving)
HandleLine(line) ==
    /\ pc = "ready"
    /\ raised' = "none"
    /\ IF Leaves(line)
       THEN /\ pc' = "stopped"
            /\ call' = [NoCall EXCEPT !.op = "exit"]
            /\ result' = << >>
            /\ UNCHANGED <<filter, word_list, updates, top_size>>
       ELSE /\ pc' = "ready"
            /\ IF line.kind = "digits"
               THEN /\ top_size' = IF line.n < 1 THEN 1 ELSE line.n
                    /\ call' = [NoCall EXCEPT !.op = "top_size", !.count = <<line.n>>]
                    /\ UNCHANGED <<filter, word_list, updates>>
               ELSE IF IsGuessLine(line)
               THEN /\ updates < MaxUpdates
                    /\ call' = [NoCall EXCEPT !.op = "update",
                                              !.word = Lower(line.word),
                                              !.values = EvalValues(line.eval)]
                    /\ filter' = FilterUpdate(filter, Lower(line.word), EvalValues(line.eval))
                    /\ word_list' = SortWordList(filter', Survivors(filter', word_list))
                    /\ updates' = updates + 1
                    /\ UNCHANGED top_size
               ELSE /\ call' = [NoCall EXCEPT !.op = "help"]
                    /\ UNCHANGED <<filter, word_list, updates, top_size>>
            /\ result' = TopOf(word_list', <<top_size'>>)
    /\ UNCHANGED <<WORDS, hidden>>

CliNext ==
    \/ CliStart
    \/ \E line \in CliLines : HandleLine(line)

CliSpec == Init /\ [][CliNext]_vars

\* ------------------------------------------------- a game with an answer
\* the evaluation of a guess against the right answer, as the help text
\* defines it: 'o' (True) the letter is in the right position, '-' (None) it
\* is in the word at another position, 'x' (False) it is not in the word
HelpScore(guess, answer) ==
    [i \in 1..Len(guess) |->
        IF guess[i] = answer[i] THEN "True"
        ELSE IF \E j \in 1..Len(answer) : answer[j] = guess[i] THEN "None"
        ELSE "False"]

\* the guesses entered in a game
GameGuesses == AllWords \cup {<<"A", "b">>}

\* the right answer is a word of the dictionary, of the configured length
GameInit ==
    /\ Fresh
    /\ hidden \in {w \in AllWords : \E i \in 1..Len(WORDS) : WORDS[i] = w}

\* Solver.update with the evaluation of the guess against the right answer
GameUpdate(word) == Update(word, HelpScore(Lower(word), hidden))

GameNext ==
    \/ Construct
    \/ \E w \in GameGuesses : GameUpdate(w)
    \/ \E count \in Counts : Top(count)

GameSpec == GameInit /\ [][GameNext]_vars

\* ------------------------------------------------ vocabulary of the claims
\* the letters of a word
LettersOf(word) == {word[i] : i \in 1..Len(word)}

\* number of times w occurs in list
CountIn(w, list) == Cardinality({i \in 1..Len(list) : list[i] = w})

\* every word occurs in sub at most as often as in list
SubCollection(sub, list) ==
    \A i \in 1..Len(sub) : CountIn(sub[i], sub) <= CountIn(sub[i], list)

\* a character is a letter of either case
IsLetter(c) == c \in Alphabet \cup {"A"}

\* a guess or values list update must refuse: a length other than the word
\* length, or a character that is no letter
Malformed(word, values) ==
    \/ Len(word) # WordLen
    \/ Len(values) # WordLen
    \/ \E i \in 1..Len(word) : ~IsLetter(word[i])

\* the letter's constraint is as disqualify() leaves it
Excluded(flt, c) == flt[c] = [pos |-> [i \in 1..WordLen |-> "False"], req |-> FALSE]

\* the constraint set rejects every word that contains c
RejectsAll(flt, c) ==
    \A w \in AllWords : c \in LettersOf(w) => ~FilterAccept(flt, w)

\* the step is an update call that passed validation
AcceptedUpdate == call'.op = "update" /\ raised' = "none" /\ updates' = updates + 1

\* ------------------------------------------------------------------ claims
\* C1: every accepted update leaves a candidate pool that is a sub-collection
\* of the pool before it (no word added, none more often, size not larger);
\* no other call after construction changes the pool.
C1_PoolMonotone ==
    [][pc = "ready" =>
        /\ SubCollection(word_list', word_list)
        /\ Len(word_list') <= Len(word_list)]_vars

\* C1 witness: an accepted update removed a word and left another
C1_Witness ==
    /\ call.op = "update" /\ raised = "none"
    /\ 0 < Len(word_list)
    /\ Len(word_list) < Len(InitialWordList(WORDS))

\* C2: an update whose guess or values list has the wrong length, or whose
\* guess holds a character that is no letter, raises and leaves every letter
\* constraint, the candidate pool and its order as they were.
C2_MalformedRejected ==
    [][(call'.op = "update" /\ Malformed(call'.word, call'.values)) =>
        /\ raised' # "none"
        /\ filter' = filter
        /\ word_list' = word_list]_vars

\* C2 witness: a guess ending in a digit was refused after an update that had
\* already narrowed the constraints and the pool
C2_Witness ==
    /\ call.op = "update" /\ raised = "ValueError"
    /\ Len(call.word) = WordLen /\ Len(call.values) = WordLen
    /\ \E i \in 1..Len(call.word) : ~IsLetter(call.word[i])
    /\ updates >= 1 /\ filter # NewFilter /\ word_list # << >>

\* C3: an accepted update repeated with the same guess and values leaves the
\* letter constraints, the candidate pool and its order as the first left them.
C3_Idempotent ==
    [][(call.op = "update" /\ raised = "none" /\ call' = call) =>
        /\ filter' = filter
        /\ word_list' = word_list]_vars

\* C3 witness: the same guess, with a repeated letter signalled in two ways,
\* was accepted twice and the pool holds two words or more
C3_Witness ==
    /\ call.op = "update" /\ raised = "none" /\ updates = 2
    /\ \E i, j \in 1..WordLen :
          /\ i # j
          /\ call.word[i] = call.word[j]
          /\ call.values[i] # call.values[j]
    /\ filter = FilterUpdate(NewFilter, call.word, call.values)
    /\ Len(word_list) >= 2

\* C4: while a letter is as disqualify() left it, every word containing it is
\* rejected, and an accepted update whose guess does not contain the letter
\* leaves it so.
C4_AbsentStaysExcluded ==
    [][\A c \in Alphabet :
        Excluded(filter, c) =>
            /\ RejectsAll(filter, c)
            /\ (AcceptedUpdate /\ c \notin LettersOf(Lower(call'.word))) =>
                   (Excluded(filter', c) /\ RejectsAll(filter', c))]_vars

\* C4 witness: a letter is excluded and the last accepted update, the second,
\* was about other letters only and constrained one of them
C4_Witness ==
    /\ call.op = "update" /\ raised = "none" /\ updates = 2
    /\ \E c \in Alphabet :
          /\ Excluded(filter, c)
          /\ c \notin LettersOf(Lower(call.word))
          /\ \E d \in LettersOf(Lower(call.word)) : filter[d].req
    /\ word_list # << >>

\* the call reports letter c ExactMatch (True) or Misplaced (None) at some index
ReportsPresent(cl, c) ==
    \E i \in 1..Len(cl.word) :
        LowerChar(cl.word[i]) = c /\ cl.values[i] \in {"True", "None"}

\* the call reports letter c Absent (False) at some index
ReportsAbsent(cl, c) ==
    \E i \in 1..Len(cl.word) : LowerChar(cl.word[i]) = c /\ cl.values[i] = "False"

\* the letter stands as an Absent report left it, and the last call was no
\* guess that reported it present as well
AbsentReported(c) ==
    /\ Excluded(filter, c)
    /\ ~(call.op = "update" /\ ReportsPresent(call, c))

\* C5: a letter reported Absent stays wholly rejected when a later guess
\* reports it ExactMatch or Misplaced, and a letter reported ExactMatch or
\* Misplaced is wholly rejected once a later guess reports it Absent.
C5_AbsentAlwaysWins ==
    [][\A c \in Alphabet :
        /\ (AbsentReported(c) /\ AcceptedUpdate
              /\ ReportsPresent(call', c) /\ ~ReportsAbsent(call', c))
           => RejectsAll(filter', c)
        /\ (filter[c].req /\ AcceptedUpdate
              /\ ReportsAbsent(call', c) /\ ~ReportsPresent(call', c))
           => RejectsAll(filter', c)]_vars

\* C6: an accepted update whose guess holds a letter at two indices, one
\* signalled ExactMatch or Misplaced and one signalled Absent, does not leave
\* the letter as disqualify() leaves it.
C6_RepeatedLetterKept ==
    [][\A c \in Alphabet :
        (AcceptedUpdate /\ ReportsPresent(call', c) /\ ReportsAbsent(call', c))
        => ~Excluded(filter', c)]_vars

\* C7: with an empty candidate pool top returns the empty sequence for every
\* count, an update that is not malformed raises nothing (whether it empties
\* the pool or finds it empty), and the pool stays empty.
C7_ExhaustedIsQuiet ==
    [][/\ (pc' = "ready" /\ word_list' = << >>) =>
            /\ call'.op = "top" => result' = << >>
            /\ (call'.op = "update" /\ ~Malformed(call'.word, call'.values))
                  => raised' = "none"
       /\ (pc = "ready" /\ word_list = << >>) => word_list' = << >>]_vars

\* C7 witness: updates emptied a pool that held words, and top was then asked
\* for a positive number of words
C7_Witness ==
    /\ pc = "ready" /\ updates = 2
    /\ InitialWordList(WORDS) # << >> /\ word_list = << >>
    /\ call.op = "top" /\ call.count = <<MaxTop>> /\ result = << >>

\* C8: an update whose values list has the right length but holds an element
\* that is none of True, False, None raises and changes neither the letter
\* constraints nor the candidate pool.
C8_InvalidTokenRejected ==
    [][(/\ call'.op = "update"
        /\ Len(call'.word) = WordLen /\ Len(call'.values) = WordLen
        /\ \E i \in 1..WordLen : ~Recognised(call'.values[i]))
       => (raised' # "none" /\ filter' = filter /\ word_list' = word_list)]_vars

\* C9: after construction the candidate pool holds exactly the dictionary
\* words of the word length made of lowercase letters only, each once.
C9_InitialPoolFiltered ==
    (pc = "ready" /\ updates = 0) =>
        /\ \A i, j \in 1..Len(word_list) : i # j => word_list[i] # word_list[j]
        /\ {word_list[i] : i \in 1..Len(word_list)} =
              {w \in {WORDS[i] : i \in 1..Len(WORDS)} : Len(w) = WordLen /\ IsLower(w)}

\* the score of a word: the sum of the letter values of its distinct letters
Score(lv, w) == SumOver(lv, LettersOf(w))

\* the list is in non-increasing order of score
NonIncreasing(lv, list) ==
    \A i \in 1..(Len(list) - 1) : Score(lv, list[i]) >= Score(lv, list[i + 1])

\* s can be had from t by deleting elements
RECURSIVE IsSubseq(_, _)
IsSubseq(s, t) ==
    IF s = << >> THEN TRUE
    ELSE IF t = << >> THEN FALSE
    ELSE IF Head(s) = Head(t) THEN IsSubseq(Tail(s), Tail(t))
    ELSE IsSubseq(s, Tail(t))

\* the candidates whose score is k, in list order, are in the order of ref
TiesFollow(lv, list, ref) ==
    \A i \in 1..Len(list) :
        IsSubseq(SelectSeq(list, LAMBDA w : Score(lv, w) = Score(lv, list[i])), ref)

\* C10 as stated: after construction and after every update the candidates
\* are in non-increasing order of score and candidates of equal score are in
\* dictionary order.
C10_TiesInDictionaryOrder ==
    (pc = "ready" /\ raised = "none") =>
        LET lv == LetterValues(filter, word_list)
        IN NonIncreasing(lv, word_list) /\ TiesFollow(lv, word_list, WORDS)

\* C10 amended: after construction and after every update the candidates are
\* in non-increasing order of score, and candidates of equal score are in the
\* order they had in the list that was sorted: dictionary order after
\* construction, the order of the previous ranking after an update.
C10_TiesInPriorOrder ==
    [][(pc' = "ready" /\ raised' = "none" /\ call'.op # "top") =>
        LET lv == LetterValues(filter', word_list')
        IN /\ NonIncreasing(lv, word_list')
           /\ TiesFollow(lv, word_list', IF pc = "start" THEN WORDS ELSE word_list)]_vars

\* C10 witness: after an update two candidates of different words have equal
\* score and stand in the order of the previous ranking, against the dictionary's
C10_Witness ==
    /\ pc = "ready" /\ raised = "none" /\ call.op = "update" /\ updates >= 1
    /\ LET lv == LetterValues(filter, word_list)
       IN /\ NonIncreasing(lv, word_list)
          /\ ~TiesFollow(lv, word_list, WORDS)

\* ---------------------------------------------------------------- C11
\* the smaller of two numbers
Min(a, b) == IF a <= b THEN a ELSE b

\* C11: top is a pure prefix read.  top(n) with n >= 0 returns the first
\* min(n, pool size) candidates in ranking order and top() returns the whole
\* ranking; neither changes the pool, its order or the constraints.  With one
\* candidate left top(n), n >= 1, returns exactly that word.
C11_TopIsPrefixRead ==
    [][(call'.op = "top" /\ (call'.count = << >> \/ call'.count[1] >= 0))
       => /\ word_list' = word_list /\ filter' = filter
          /\ IF call'.count = << >>
             THEN result' = word_list
             ELSE /\ Len(result') = Min(call'.count[1], Len(word_list))
                  /\ \A i \in 1..Len(result') : result'[i] = word_list[i]
          /\ (Len(word_list) = 1 /\ call'.count # << >> /\ call'.count[1] >= 1)
                => result' = <<word_list[1]>>]_vars

\* C11 witness: after an update one candidate is left and top(1) returned it
C11_Witness ==
    /\ call.op = "top" /\ call.count = <<1>> /\ updates >= 1
    /\ Len(word_list) = 1 /\ result = word_list

\* ---------------------------------------------------------------- C12
\* C12: the interactive session ends by itself once solved.  After an update
\* that leaves exactly one candidate the prompt loop has stopped: no further
\* prompt is issued.
C12_StopsWhenSolved ==
    (call.op = "update" /\ raised = "none" /\ Len(word_list) = 1) => pc = "stopped"

\* ---------------------------------------------------------------- C13
\* the words put to the filter: every word of the configured length over the
\* alphabet, the dictionary's entries, and words of other lengths or characters
ProbeWords ==
    AllWords \cup OddGuesses \cup {WORDS[i] : i \in 1..Len(WORDS)}
    \cup {<<"a", "b", "c">>, << >>}

\* C13: no constraints initially.  Until the first update is applied the
\* filter accepts every word of the configured length, in particular every
\* word of the initial pool, and reports all letters as unconstrained.
C13_NoConstraintsInitially ==
    (pc # "start" /\ updates = 0)
    => /\ \A w \in ProbeWords : Len(w) = WordLen => FilterAccept(filter, w)
       /\ \A i \in 1..Len(word_list) : FilterAccept(filter, word_list[i])
       /\ UnknownLetters(filter) = Alphabet

\* C13 witness: a constructed solver with several candidates and no update yet
C13_Witness ==
    /\ pc = "ready" /\ call.op = "init" /\ updates = 0
    /\ Len(word_list) >= 2
    /\ word_list = SortWordList(filter, InitialWordList(WORDS))

\* ---------------------------------------------------------------- C14
\* the acceptance predicate as stated: for each letter c, w has c at every
\* must-match index, at no must-not-match index, and somewhere when required
AcceptsAsStated(flt, w) ==
    /\ Len(w) = WordLen
    /\ \A c \in Alphabet :
          /\ \A i \in 1..WordLen : flt[c].pos[i] = "True" => w[i] = c
          /\ \A i \in 1..WordLen : flt[c].pos[i] = "False" => w[i] # c
          /\ flt[c].req => \E i \in 1..WordLen : w[i] = c

\* C14: acceptance predicate.  In every reachable constraint state the filter
\* accepts a word of the configured length exactly when, for each letter c,
\* the word has c at every must-match index, does not have c at any
\* must-not-match index, and contains c when c is required; a word of any
\* other length is rejected.
C14_AcceptancePredicate ==
    \A w \in ProbeWords : FilterAccept(filter, w) <=> AcceptsAsStated(filter, w)

\* C14 witness: a letter has a must-match slot, a required letter has a
\* must-not-match slot, a word of the right length is accepted and another
\* rejected for lacking a required letter only
C14_Witness ==
    /\ updates >= 1
    /\ \E c \in Alphabet : \E i \in 1..WordLen : filter[c].pos[i] = "True"
    /\ \E c \in Alphabet : filter[c].req /\ \E i \in 1..WordLen : filter[c].pos[i] = "False"
    /\ \E w \in AllWords : FilterAccept(filter, w)
    /\ \E w \in AllWords :
          /\ ~FilterAccept(filter, w)
          /\ \A c \in Alphabet : LetterAcceptIgnoreRequired(c, filter[c].pos, filter[c].req, w)

\* ---------------------------------------------------------------- C15
\* the orders in which the indices of a guess can be processed
Orders ==
    {o \in SeqsOfLen(1..WordLen, WordLen) : \A i, j \in 1..WordLen : o[i] = o[j] => i = j}

\* the entries (index, letter, signal) of a guess applied in the given order
RECURSIVE UpdateInOrder(_, _, _, _)
UpdateInOrder(flt, word, values, order) ==
    IF order = << >>
    THEN flt
    ELSE UpdateInOrder(ApplySignal(flt, Head(order), word[Head(order)], values[Head(order)]),
                       word, values, Tail(order))

\* C15: order independence inside one guess.  Processing the (index, letter,
\* signal) entries of a valid update in any permutation leaves the constraint
\* state that processing them left to right leaves, also when a letter occurs
\* at several indices with different signals.
C15_OrderIndependent ==
    [][(AcceptedUpdate /\ \A i \in 1..WordLen : Recognised(call'.values[i]))
       => \A o \in Orders :
             UpdateInOrder(filter, Lower(call'.word), call'.values, o) = filter']_vars

\* ---------------------------------------------------------------- C16
\* number of words of the pool that hold letter l
WordsWith(l, list) == Cardinality({i \in 1..Len(list) : l \in LettersOf(list[i])})

\* number of places of the pool's words that hold letter l
PlacesWith(l, list) ==
    Cardinality({p \in (1..Len(list)) \X (1..WordLen) : list[p[1]][p[2]] = l})

\* the boost of a letter: word length times pool size while it is unconstrained
Boost(flt, list, l) ==
    IF \A i \in 1..WordLen : flt[l].pos[i] = "None" THEN WordLen * Len(list) ELSE 1

\* the table with each letter counted once per word
TableOncePerWord(flt, list) ==
    [l \in Alphabet |-> WordsWith(l, list) * Boost(flt, list, l)]

\* the table with each letter counted once per occurrence
TablePerOccurrence(flt, list) ==
    [l \in Alphabet |-> PlacesWith(l, list) * Boost(flt, list, l)]

\* C16 (as stated): the frequency table is computed from the current pool
\* only and counts each distinct letter once per word it appears in; the
\* frequency of every unconstrained letter is multiplied by word length times
\* pool size.  The pool is ranked by that table.
C16_CountsOncePerWord ==
    (pc = "ready" /\ raised = "none")
    => /\ LetterValues(filter, word_list) = TableOncePerWord(filter, word_list)
       /\ NonIncreasing(TableOncePerWord(filter, word_list), word_list)

\* C16 (amended): the frequency table is computed from the current pool only
\* and counts every occurrence of a letter, so a word with a repeated letter
\* contributes the number of occurrences; the frequency of every unconstrained
\* letter is multiplied by word length times pool size.  The pool is ranked by
\* that table.
C16_CountsPerOccurrence ==
    (pc = "ready" /\ raised = "none")
    => /\ LetterValues(filter, word_list) = TablePerOccurrence(filter, word_list)
       /\ NonIncreasing(TablePerOccurrence(filter, word_list), word_list)

\* C16 witness: after an update the pool holds a word with a repeated letter,
\* a letter of the pool is unconstrained and another is not, and the two ways
\* of counting give different tables
C16_Witness ==
    /\ pc = "ready" /\ raised = "none" /\ call.op = "update" /\ updates >= 1
    /\ \E i \in 1..Len(word_list) : Cardinality(LettersOf(word_list[i])) < WordLen
    /\ \E l \in Alphabet : l \in UnknownLetters(filter) /\ PlacesWith(l, word_list) > 0
    /\ \E l \in Alphabet : l \notin UnknownLetters(filter) /\ PlacesWith(l, word_list) > 0
    /\ TableOncePerWord(filter, word_list) # TablePerOccurrence(filter, word_list)
    /\ Len(word_list) >= 2

\* ---------------------------------------------------------------- C17
\* the words of the configured length over the alphabet that the filter accepts
Accepted(flt) == {w \in AllWords : FilterAccept(flt, w)}

\* the guess contradicts nothing the filter has recorded: no ExactMatch on a
\* must-not-match slot, no Misplaced on a must-match slot, no Absent for a
\* letter that is required or has a must-match slot
Agrees(flt, word, values) ==
    \A i \in 1..WordLen :
        LET lf == flt[word[i]]
        IN IF values[i] = "True" THEN lf.pos[i] # "False"
           ELSE IF values[i] = "None" THEN lf.pos[i] # "True"
           ELSE ~lf.req /\ \A j \in 1..WordLen : lf.pos[j] # "True"

\* the last step was an update that passed validation, its signals among the three
ValidUpdate ==
    AcceptedUpdate /\ \A i \in 1..WordLen : Recognised(call'.values[i])

\* C17 (as stated): constraints are monotone.  For every reachable constraint
\* state and every valid update, the set of words accepted after the update is
\* a subset of the set accepted before it.
C17_ConstraintsMonotone ==
    [][ValidUpdate => Accepted(filter') \subseteq Accepted(filter)]_vars

\* C17 (amended): for every reachable constraint state and every valid update
\* that contradicts nothing already recorded, the set of words accepted after
\* the update is a subset of the set accepted before it.
C17_MonotoneWhenAgreeing ==
    [][(ValidUpdate /\ Agrees(filter, Lower(call'.word), call'.values))
       => Accepted(filter') \subseteq Accepted(filter)]_vars

\* C17 witness: a second update that agrees with what the first recorded and
\* narrows the accepted set further, without emptying it
C17_Witness ==
    /\ pc = "ready" /\ call.op = "update" /\ raised = "none" /\ updates = 2
    /\ \E c \in Calls :
          LET before == FilterUpdate(NewFilter, c[1], c[2])
              first == SortWordList(NewFilter, InitialWordList(WORDS))
              second == SortWordList(before, Survivors(before, first))
          IN /\ UpdateError(c[1], c[2]) = "none"
             /\ filter = FilterUpdate(before, call.word, call.values)
             /\ word_list = SortWordList(filter, Survivors(filter, second))
             /\ Agrees(before, Lower(call.word), call.values)
             /\ Accepted(before) # AllWords
             /\ Accepted(filter) # Accepted(before)
             /\ Accepted(filter) \subseteq Accepted(before)
             /\ Accepted(filter) # {}

\* ---------------------------------------------------------------- C18
\* C18: unconstrained-letter test.  In every state reached through updates a
\* letter is reported unknown if and only if none of its slots has been set
\* and its required flag is false; equivalently a required letter has at
\* least one slot that is not unknown, so that looking at the slots is enough.
C18_UnknownIffUntouched ==
    \A l \in Alphabet :
        /\ (l \in UnknownLetters(filter))
             <=> ((\A i \in 1..WordLen : filter[l].pos[i] = "None") /\ ~filter[l].req)
        /\ filter[l].req => \E i \in 1..WordLen : filter[l].pos[i] # "None"

\* C18 witness: after two updates one letter is required with a slot set,
\* one is excluded with its flag cleared, and one is still unknown
C18_Witness ==
    /\ pc = "ready" /\ call.op = "update" /\ raised = "none" /\ updates = 2
    /\ \E l \in Alphabet :
          filter[l].req /\ \E i, j \in 1..WordLen : filter[l].pos[i] # "None" /\ filter[l].pos[j] = "None"
    /\ \E l \in Alphabet : Excluded(filter, l)
    /\ \E l \in Alphabet : l \in UnknownLetters(filter) /\ ~filter[l].req

\* ---------------------------------------------------------------- C19
\* C19: the hidden word survives consistent feedback.  With a hidden word of
\* the initial pool and every update carrying the evaluation of its guess
\* against the hidden word as the help text defines it, the hidden word is in
\* the pool after any sequence of updates: the pool is never empty.
C19_HiddenWordSurvives ==
    pc = "ready"
    => /\ \E k \in 1..Len(word_list) : word_list[k] = hidden
       /\ FilterAccept(filter, hidden)
       /\ word_list # << >>

\* C19 witness: two guesses, the last with a Misplaced entry and not the
\* hidden word, have excluded a letter and narrowed a pool of three words
\* down to the hidden word
C19_Witness ==
    /\ pc = "ready" /\ call.op = "update" /\ raised = "none" /\ updates = 2
    /\ Len(InitialWordList(WORDS)) >= 3
    /\ word_list = <<hidden>>
    /\ Lower(call.word) # hidden
    /\ \E i \in 1..WordLen : call.values[i] = "None"
    /\ \E c \in Alphabet : Excluded(filter, c)

\* ---------------------------------------------------------------- C20
\* C20: every imperfect guess is eliminated.  After a valid update whose
\* signals have at least one Misplaced or Absent entry the guessed word is
\* not in the pool; after one whose entries are all ExactMatch every word left
\* in the pool equals the guess.
C20_ImperfectGuessEliminated ==
    [][ValidUpdate
       => IF \E i \in 1..WordLen : call'.values[i] # "True"
          THEN \A k \in 1..Len(word_list') : word_list'[k] # Lower(call'.word)
          ELSE \A k \in 1..Len(word_list') : word_list'[k] = Lower(call'.word)]_vars

\* C20 witness: the first update guesses a word of the pool with a Misplaced
\* or Absent entry; the word is gone and the pool is not empty
C20_Witness ==
    /\ pc = "ready" /\ call.op = "update" /\ raised = "none" /\ updates = 1
    /\ \A i \in 1..WordLen : Recognised(call.values[i])
    /\ \E i \in 1..WordLen : call.values[i] # "True"
    /\ \E k \in 1..Len(WORDS) : WORDS[k] = Lower(call.word)
    /\ \A k \in 1..Len(word_list) : word_list[k] # Lower(call.word)
    /\ word_list # << >>

====
